---------------------------- MODULE Spec2Model ----------------------------
(***************************************************************************)
(* A model of mixconc.py, the liquid-mixture concentration calculator:     *)
(* the unit tables, calculate_solute_mass, convert_solute_to_target_unit,  *)
(* solve_two_component_mixture and the script's main calculation (the      *)
(* three branches solve / scale / direct, the totals and the display       *)
(* branch).                                                                *)
(*                                                                         *)
(* Numbers.  Python floats are modelled by exact decimal rationals         *)
(* <<n, d, e>> = (n / d) * 10^e, so that 1e-7, 1e-9 and 58.44 are exact    *)
(* and an equation is decided exactly; float rounding is not modelled.     *)
(* A division by zero, which raises ZeroDivisionError in Python, yields    *)
(* the value ZeroDivisionError, which every later operation passes on.     *)
(*                                                                         *)
(* Strings.  The unit names written with a Greek mu in the source are      *)
(* written with "u" here ("ug/L", "ug", "uL"), and the solver's Chinese    *)
(* messages are named by English tags (see the Msg definitions).           *)
(***************************************************************************)
EXTENDS Integers, Sequences, FiniteSets, TLC

VARIABLES
    \* the widgets of the sidebar (Streamlit's session state)
    conc_unit, mass_unit, vol_unit, material_count,
    target_vol_input, target_conc_input, materials_input,
    \* the script's position and what one run of it computes
    pc, is_valid_solve, branch, solve_error_msg, final_materials,
    display, rendered,
    \* the last direct call of an engine function (specification SpecFn)
    call

vars == <<conc_unit, mass_unit, vol_unit, material_count,
          target_vol_input, target_conc_input, materials_input,
          pc, is_valid_solve, branch, solve_error_msg, final_materials,
          display, rendered, call>>

widgets == <<conc_unit, mass_unit, vol_unit, material_count,
             target_vol_input, target_conc_input, materials_input>>

outputs == <<is_valid_solve, branch, solve_error_msg, final_materials,
             display, rendered>>

---------------------------------------------------------------------------
(* Exact decimal rationals.                                                *)

ZeroDivisionError == <<0, 0, 0>>

Raised(x) == x[2] = 0

AbsInt(a) == IF a < 0 THEN -a ELSE a

SignInt(a) == IF a < 0 THEN -1 ELSE IF a > 0 THEN 1 ELSE 0

MinInt(a, b) == IF a < b THEN a ELSE b

RECURSIVE GCD(_, _)
GCD(a, b) == IF b = 0 THEN a ELSE GCD(b, a % b)

RECURSIVE Pow10(_)
Pow10(k) == IF k = 0 THEN 1 ELSE 10 * Pow10(k - 1)

\* move the factors 10 of n into the exponent
RECURSIVE Strip10(_, _)
Strip10(n, e) == IF n % 10 = 0 THEN Strip10(n \div 10, e + 1) ELSE <<n, e>>

\* move the factors 2 and 5 of d into the exponent while n stays small
RECURSIVE Smooth(_, _, _)
Smooth(n, d, e) ==
    IF AbsInt(n) >= 100000000 THEN <<n, d, e>>
    ELSE IF d % 10 = 0 THEN Smooth(n, d \div 10, e - 1)
    ELSE IF d % 2 = 0 THEN Smooth(n * 5, d \div 2, e - 1)
    ELSE IF d % 5 = 0 THEN Smooth(n * 2, d \div 5, e - 1)
    ELSE <<n, d, e>>

\* (n / d) * 10^e with d > 0, reduced: n and d coprime, n not a multiple of
\* 10, d without factors 2 and 5 where n allows; zero is <<0, 1, 0>>.  One
\* value may have several such forms, so values are compared with Eq, Lt
\* and Le, never with =
Normal(n, d, e) ==
    IF n = 0 THEN <<0, 1, 0>>
    ELSE LET g  == GCD(AbsInt(n), d)
             s  == Smooth(n \div g, d \div g, e)
             sn == Strip10(s[1], s[3])
         IN  <<sn[1], s[2], sn[2]>>

Num(n, d) == Normal(n, d, 0)

Zero == <<0, 1, 0>>

Neg(x) == IF Raised(x) THEN ZeroDivisionError ELSE <<-x[1], x[2], x[3]>>

Mul(x, y) ==
    IF Raised(x) \/ Raised(y) THEN ZeroDivisionError
    ELSE IF x[1] = 0 \/ y[1] = 0 THEN Zero
    ELSE LET g1 == GCD(AbsInt(x[1]), y[2])
             g2 == GCD(AbsInt(y[1]), x[2])
         IN  Normal((x[1] \div g1) * (y[1] \div g2),
                    (x[2] \div g2) * (y[2] \div g1), x[3] + y[3])

\* x / y; Python raises ZeroDivisionError when y is 0
Div(x, y) ==
    IF Raised(x) \/ Raised(y) \/ y[1] = 0 THEN ZeroDivisionError
    ELSE IF x[1] = 0 THEN Zero
    ELSE LET g1 == GCD(AbsInt(x[1]), AbsInt(y[1]))
             g2 == GCD(x[2], y[2])
         IN  Normal(SignInt(y[1]) * (x[1] \div g1) * (y[2] \div g2),
                    (x[2] \div g2) * (AbsInt(y[1]) \div g1), x[3] - y[3])

Add(x, y) ==
    IF Raised(x) \/ Raised(y) THEN ZeroDivisionError
    ELSE IF x[1] = 0 THEN y
    ELSE IF y[1] = 0 THEN x
    ELSE LET e == MinInt(x[3], y[3])
             g == GCD(x[2], y[2])
             a == x[1] * Pow10(x[3] - e) * (y[2] \div g)
             b == y[1] * Pow10(y[3] - e) * (x[2] \div g)
         IN  Normal(a + b, (x[2] \div g) * y[2], e)

Sub(x, y) == Add(x, Neg(y))

Sign(x) == SignInt(x[1])

\* for x, y > 0: x < y, that is (n / d) * 10^k < 1 for the quotient's
\* numerator n, denominator d and exponent k, without forming 10^k * n
LtPos(x, y) ==
    LET g1 == GCD(x[1], y[1])
        g2 == GCD(x[2], y[2])
        n  == (x[1] \div g1) * (y[2] \div g2)
        d  == (x[2] \div g2) * (y[1] \div g1)
        k  == x[3] - y[3]
    IN  IF k >= 0
        THEN IF k >= 10 THEN FALSE ELSE n <= (d - 1) \div Pow10(k)
        ELSE IF -k >= 10 THEN TRUE ELSE n \div Pow10(-k) < d

\* x < y
Lt(x, y) ==
    IF Sign(x) # Sign(y) THEN Sign(x) < Sign(y)
    ELSE IF Sign(x) = 0 THEN FALSE
    ELSE IF Sign(x) > 0 THEN LtPos(x, y)
    ELSE LtPos(Neg(y), Neg(x))

Le(x, y) == ~Lt(y, x)

Eq(x, y) == ~Lt(x, y) /\ ~Lt(y, x)

Abs(x) == IF Raised(x) THEN x ELSE <<AbsInt(x[1]), x[2], x[3]>>

Min(x, y) == IF Lt(y, x) THEN y ELSE x

Max(x, y) == IF Lt(x, y) THEN y ELSE x

\* Python's sum of the first n elements of a list, from the left
RECURSIVE SumTo(_, _)
SumTo(s, n) == IF n = 0 THEN Zero ELSE Add(SumTo(s, n - 1), s[n])

Sum(s) == SumTo(s, Len(s))

---------------------------------------------------------------------------
(* The engine: unit tables and the three functions.                        *)

None == "None"

MASS_UNIT_TO_G ==
    [u \in {"ug", "mg", "g", "kg"} |->
        CASE u = "ug" -> Num(1, 1000000)
          [] u = "mg" -> Num(1, 1000)
          [] u = "g"  -> Num(1, 1)
          [] u = "kg" -> Num(1000, 1)]

VOL_UNIT_TO_ML ==
    [u \in {"uL", "mL", "L"} |->
        CASE u = "uL" -> Num(1, 1000)
          [] u = "mL" -> Num(1, 1)
          [] u = "L"  -> Num(1000, 1)]

CONC_MASS_UNIT_TO_G_PER_L ==
    [u \in {"ug/L", "mg/L", "g/L"} |->
        CASE u = "ug/L" -> Num(1, 1000000)
          [] u = "mg/L" -> Num(1, 1000)
          [] u = "g/L"  -> Num(1, 1)]

\* the solute's absolute mass in grams
calculate_solute_mass(conc, unit, molar_mass, density, total_mass_g) ==
    IF unit \in DOMAIN CONC_MASS_UNIT_TO_G_PER_L
    THEN LET vol_L    == Div(Div(total_mass_g, density), Num(1000, 1))
             conc_g_L == Mul(conc, CONC_MASS_UNIT_TO_G_PER_L[unit])
         IN  Mul(conc_g_L, vol_L)
    ELSE IF unit \in {"mmol/L", "mol/L"}
    THEN LET vol_L  == Div(Div(total_mass_g, density), Num(1000, 1))
             factor == IF unit = "mmol/L" THEN Num(1, 1000) ELSE Num(1, 1)
         IN  Mul(Mul(Mul(conc, factor), vol_L), molar_mass)
    ELSE IF unit = "% (w/w)"
    THEN Mul(Div(conc, Num(100, 1)), total_mass_g)
    ELSE IF unit = "% (v/v)"
    THEN LET vol_total  == Div(total_mass_g, density)
             vol_solute == Mul(Div(conc, Num(100, 1)), vol_total)
         IN  Mul(vol_solute, density)
    ELSE Zero

\* the concentration of the mixture in the target unit
convert_solute_to_target_unit(solute_g, total_mass_g, total_vol_ml, target_unit, ref_molar_mass) ==
    IF Le(total_mass_g, Num(1, 1000000000))
       \/ Le(total_vol_ml, Num(1, 1000000000))
    THEN Zero
    ELSE IF target_unit = "% (w/w)"
    THEN Mul(Div(solute_g, total_mass_g), Num(100, 1))
    ELSE IF target_unit = "% (v/v)"
    THEN Mul(Div(solute_g, total_mass_g), Num(100, 1))
    ELSE LET total_vol_L == Div(total_vol_ml, Num(1000, 1))
         IN  CASE target_unit = "g/L" -> Div(solute_g, total_vol_L)
               [] target_unit = "mg/L" ->
                    Div(Mul(solute_g, Num(1000, 1)), total_vol_L)
               [] target_unit = "ug/L" ->
                    Div(Mul(solute_g, Num(1000000, 1)), total_vol_L)
               [] target_unit = "mol/L" ->
                    Div(Div(solute_g, ref_molar_mass), total_vol_L)
               [] target_unit = "mmol/L" ->
                    Div(Mul(Div(solute_g, ref_molar_mass), Num(1000, 1)),
                        total_vol_L)
               [] OTHER -> Zero

\* the solver's four messages (the source's texts are Chinese)
MsgEnterConc   == "enter the components' concentrations"
MsgOutOfRange  == "the target concentration must lie between min_c and max_c"
MsgSameConc    == "the two components have the same concentration"
MsgSameAsComp1 == "the target concentration is that of component 1"

\* what a call of the solver gives: the pair (masses, message) it returns,
\* or the exception it raises
Return(masses, err) == [masses |-> masses, err |-> err, exc |-> None]

Raise(exc) == [masses |-> None, err |-> None, exc |-> exc]

\* a slip in the blend equation: the numerator measured from c1, not c2
VolumeBasedMassesSwapped(c1, d1, c2, d2, target_vol_ml, target_conc) ==
    LET v1 == Div(Mul(target_vol_ml, Sub(target_conc, c1)), Sub(c1, c2))
        v2 == Sub(target_vol_ml, v1)
    IN  <<Mul(v1, d1), Mul(v2, d2)>>

\* the volume-based branch: the blend solved for volumes, turned into masses
VolumeBasedMasses(c1, d1, c2, d2, target_vol_ml, target_conc) ==
    LET v1 == Div(Mul(target_vol_ml, Sub(target_conc, c2)), Sub(c1, c2))
        v2 == Sub(target_vol_ml, v1)
    IN  <<Mul(v1, d1), Mul(v2, d2)>>

\* the mass-based branch with the target taken as a total mass
MassBasedMassesAsTotalMass(c1, d1, c2, d2, target_vol_ml, target_conc) ==
    LET ratio_m1_m2 == Div(Sub(target_conc, c2), Sub(c1, target_conc))
        m2 == Div(target_vol_ml, Add(ratio_m1_m2, Num(1, 1)))
        m1 == Mul(m2, ratio_m1_m2)
    IN  <<m1, m2>>

\* the mass-based branch with a sign slip in the ratio's denominator
MassBasedMassesSignSlip(c1, d1, c2, d2, target_vol_ml, target_conc) ==
    LET ratio_m1_m2 == Div(Sub(target_conc, c2), Sub(target_conc, c1))
        m2 == Div(target_vol_ml,
                  Add(Div(ratio_m1_m2, d1), Div(Num(1, 1), d2)))
        m1 == Mul(m2, ratio_m1_m2)
    IN  <<m1, m2>>

\* the mass-based branch (weight percent); m2 raises ZeroDivisionError when
\* ratio_m1_m2/d1 + 1/d2 is 0
MassBasedMasses(c1, d1, c2, d2, target_vol_ml, target_conc) ==
    LET ratio_m1_m2 == Div(Sub(target_conc, c2), Sub(c1, target_conc))
        m2 == Div(target_vol_ml,
                  Add(Div(ratio_m1_m2, d1), Div(Num(1, 1), d2)))
        m1 == Mul(m2, ratio_m1_m2)
    IN  <<m1, m2>>

solve_two_component_mixture(c1, d1, c2, d2, target_vol_ml, target_conc, unit) ==
    LET val_c1  == c1
        val_c2  == c2
        val_ct  == target_conc
        epsilon == Num(1, 10000000)
        min_c   == Min(c1, c2)
        max_c   == Max(c1, c2)
        is_vol_based == unit \notin {"% (w/w)"}
    IN  IF Eq(val_c1, Zero) /\ Eq(val_c2, Zero)
        THEN Return(None, MsgEnterConc)
        ELSE IF ~(Le(Sub(min_c, epsilon), target_conc)
                  /\ Le(target_conc, Add(max_c, epsilon)))
        THEN Return(None, MsgOutOfRange)
        ELSE IF Lt(Abs(Sub(c1, c2)), epsilon)
        THEN Return(None, MsgSameConc)
        ELSE IF is_vol_based
        THEN Return(VolumeBasedMasses(val_c1, d1, val_c2, d2, target_vol_ml,
                                      val_ct), None)
        ELSE IF Lt(Abs(Sub(c1, target_conc)), epsilon)
        THEN Return(None, MsgSameAsComp1)
        ELSE LET m == MassBasedMasses(c1, d1, c2, d2, target_vol_ml,
                                      target_conc)
             IN  IF Raised(m[2]) THEN Raise("ZeroDivisionError")
                 ELSE Return(m, None)

---------------------------------------------------------------------------
(* Direct calls of the engine's functions, on inputs from bounded sets.    *)

\* the options of the concentration selectbox
ConcUnits == {"ug/L", "mg/L", "g/L", "mmol/L", "mol/L", "% (w/w)", "% (v/v)"}

\* concentrations of everyday size, and concentrations the size of the
\* solver's tolerance 1e-7
EverydayConcs == {Zero, Num(10, 1), Num(20, 1), Num(40, 1), Num(50, 1),
                  Num(100, 1)}

ToleranceConcs == {Zero, Num(1, 10000000), Num(2, 10000000),
                   Num(4, 10000000)}

FnDensities == {Num(1, 1), Num(12, 10), Num(2, 1)}

FnVolumes == {Zero, Num(100, 1)}

FnSolveUnits == {"g/L", "mol/L", "% (w/w)", "% (v/v)"}

NoCall == [fn |-> "none", args |-> <<>>, done |-> FALSE, ret |-> <<>>]

SolveArgs ==
    UNION { [c1 : concs, d1 : FnDensities, c2 : concs, d2 : FnDensities,
             target_vol_ml : FnVolumes, target_conc : concs,
             unit : FnSolveUnits] : concs \in {EverydayConcs, ToleranceConcs} }

FnUnits == ConcUnits \cup {"ppm"}

FnMolarMasses == {Zero, Num(5844, 100)}

CalculateArgs ==
    [conc : {Zero, Num(40, 1), Num(150, 1)}, unit : FnUnits,
     molar_mass : FnMolarMasses, density : FnDensities,
     total_mass_g : {Zero, Num(1, 10), Num(100, 1)}]

ConvertArgs ==
    [solute_g : {Zero, Num(5, 1)},
     total_mass_g : {Zero, Num(1, 1000000000), Num(100, 1)},
     total_vol_ml : {Zero, Num(1, 1000000000), Num(100, 1)},
     target_unit : FnUnits, ref_molar_mass : FnMolarMasses]

Pending(fn) == call.fn = fn /\ ~call.done

CallSolve ==
    /\ Pending("solve_two_component_mixture")
    /\ LET a == call.args
       IN  call' = [call EXCEPT !.done = TRUE, !.ret = solve_two_component_mixture(
                        a.c1, a.d1, a.c2, a.d2, a.target_vol_ml,
                        a.target_conc, a.unit)]
    /\ UNCHANGED <<widgets, pc, outputs>>

CallCalculateSoluteMass ==
    /\ Pending("calculate_solute_mass")
    /\ LET a == call.args
       IN  call' = [call EXCEPT !.done = TRUE, !.ret = calculate_solute_mass(
                        a.conc, a.unit, a.molar_mass, a.density,
                        a.total_mass_g)]
    /\ UNCHANGED <<widgets, pc, outputs>>

CallConvert ==
    /\ Pending("convert_solute_to_target_unit")
    /\ LET a == call.args
       IN  call' = [call EXCEPT !.done = TRUE, !.ret = convert_solute_to_target_unit(
                        a.solute_g, a.total_mass_g, a.total_vol_ml,
                        a.target_unit, a.ref_molar_mass)]
    /\ UNCHANGED <<widgets, pc, outputs>>

---------------------------------------------------------------------------
(* The script.  Streamlit stores the value of the widget the user changed  *)
(* and then reruns the script from top to bottom: an Input or Select       *)
(* action is the change, Rerun is one run of the whole script.             *)

Molar(unit) == unit \in {"mmol/L", "mol/L"}

DefaultMolarMass == Num(5844, 100)

\* the widgets' values of component i (i = 1 is the source's i = 0)
DefaultMaterial(i) ==
    [conc       |-> IF i = 2 THEN Num(100, 1) ELSE Zero,
     density    |-> Num(1, 1),
     mass       |-> Num(100, 1),
     molar_mass |-> DefaultMolarMass]

target_vol_ml == Mul(target_vol_input, VOL_UNIT_TO_ML[vol_unit])

\* IsValidSolve without the check of the target concentration
IsValidSolveVolumeOnly ==
    LET is_auto_solve_mode == Lt(Zero, target_vol_ml)
    IN  IF is_auto_solve_mode THEN material_count = 2 ELSE FALSE

IsValidSolve ==
    LET is_auto_solve_mode ==
            Lt(Zero, target_vol_ml) /\ Lt(Zero, target_conc_input)
    IN  IF is_auto_solve_mode THEN material_count = 2 ELSE FALSE

\* the list the sidebar's loop builds; the molar mass is asked for only
\* when the concentration unit is molar
MaterialsInput ==
    [i \in 1..material_count |->
        [id         |-> i - 1,
         conc       |-> materials_input[i].conc,
         mass       |-> materials_input[i].mass,
         density    |-> materials_input[i].density,
         molar_mass |-> IF Molar(conc_unit)
                        THEN materials_input[i].molar_mass
                        ELSE DefaultMolarMass]]

RefMolarMass ==
    IF Molar(conc_unit) THEN materials_input[1].molar_mass
    ELSE DefaultMolarMass

\* one element of final_materials
Computed(item, mass_g, vol_mL, solute_g) ==
    [id |-> item.id, conc |-> item.conc, mass |-> item.mass,
     density |-> item.density, molar_mass |-> item.molar_mass,
     mass_g |-> mass_g, vol_mL |-> vol_mL, solute_g |-> solute_g]

Calculation(b, materials, err, exc) ==
    [branch |-> b, final_materials |-> materials, solve_error_msg |-> err,
     exc |-> exc]

SolveBranch ==
    LET m1 == MaterialsInput[1]
        m2 == MaterialsInput[2]
        r  == solve_two_component_mixture(
                  m1.conc, m1.density, m2.conc, m2.density, target_vol_ml,
                  target_conc_input, conc_unit)
    IN  IF r.exc # None THEN Calculation("solve", <<>>, None, r.exc)
        ELSE IF r.err # None THEN Calculation("solve", <<>>, r.err, None)
        ELSE Calculation("solve",
                 [idx \in 1..material_count |->
                     LET item        == MaterialsInput[idx]
                         calc_mass_g == r.masses[idx]
                         calc_vol_mL == Div(calc_mass_g, item.density)
                         solute_g    == calculate_solute_mass(
                                            item.conc, conc_unit,
                                            item.molar_mass, item.density,
                                            calc_mass_g)
                     IN  Computed(item, calc_mass_g, calc_vol_mL, solute_g)],
                 None, None)

\* ScaleBranch with the scaling factor upside down
ScaleBranchFactorInverted ==
    LET base_vol ==
            Sum([i \in 1..material_count |->
                    Div(Mul(MaterialsInput[i].mass, MASS_UNIT_TO_G[mass_unit]),
                        MaterialsInput[i].density)])
        scaling_factor ==
            IF Lt(Zero, base_vol) THEN Div(base_vol, target_vol_ml) ELSE Zero
    IN  Calculation("scale",
            [i \in 1..material_count |->
                LET item     == MaterialsInput[i]
                    req_m_g  == Mul(Mul(item.mass, MASS_UNIT_TO_G[mass_unit]),
                                    scaling_factor)
                    solute_g == calculate_solute_mass(
                                    item.conc, conc_unit, item.molar_mass,
                                    item.density, req_m_g)
                IN  Computed(item, req_m_g, Div(req_m_g, item.density),
                             solute_g)],
            None, None)

ScaleBranch ==
    LET base_vol ==
            Sum([i \in 1..material_count |->
                    Div(Mul(MaterialsInput[i].mass, MASS_UNIT_TO_G[mass_unit]),
                        MaterialsInput[i].density)])
        scaling_factor ==
            IF Lt(Zero, base_vol) THEN Div(target_vol_ml, base_vol) ELSE Zero
    IN  Calculation("scale",
            [i \in 1..material_count |->
                LET item     == MaterialsInput[i]
                    req_m_g  == Mul(Mul(item.mass, MASS_UNIT_TO_G[mass_unit]),
                                    scaling_factor)
                    solute_g == calculate_solute_mass(
                                    item.conc, conc_unit, item.molar_mass,
                                    item.density, req_m_g)
                IN  Computed(item, req_m_g, Div(req_m_g, item.density),
                             solute_g)],
            None, None)

DirectBranch ==
    Calculation("direct",
        [i \in 1..material_count |->
            LET item     == MaterialsInput[i]
                m_g      == Mul(item.mass, MASS_UNIT_TO_G[mass_unit])
                solute_g == calculate_solute_mass(
                                item.conc, conc_unit, item.molar_mass,
                                item.density, m_g)
            IN  Computed(item, m_g, Div(m_g, item.density), solute_g)],
        None, None)

MainCalculation ==
    IF IsValidSolve THEN SolveBranch
    ELSE IF Lt(Zero, target_vol_ml) /\ ~IsValidSolve THEN ScaleBranch
    ELSE DirectBranch

\* a name the run has not bound (the run raised before the assignment)
Unbound == <<0, 0, 1>>

NoDisplay ==
    [display_mass |-> Unbound, display_vol |-> Unbound,
     display_density |-> Unbound, display_conc |-> Unbound]

\* the totals of the data frame and the four displayed values
Totals(materials) ==
    IF materials # <<>>
    THEN LET theo_mass_g ==
                 Sum([i \in DOMAIN materials |-> materials[i].mass_g])
             theo_solute_g ==
                 Sum([i \in DOMAIN materials |-> materials[i].solute_g])
             theo_vol_ml ==
                 Sum([i \in DOMAIN materials |-> materials[i].vol_mL])
         IN  [display_mass    |-> Div(theo_mass_g, MASS_UNIT_TO_G[mass_unit]),
              display_vol     |-> Div(theo_vol_ml, VOL_UNIT_TO_ML[vol_unit]),
              display_density |-> IF Lt(Zero, theo_vol_ml)
                                  THEN Div(theo_mass_g, theo_vol_ml)
                                  ELSE Zero,
              display_conc    |-> convert_solute_to_target_unit(
                                      theo_solute_g, theo_mass_g, theo_vol_ml,
                                      conc_unit, RefMolarMass)]
    ELSE [display_mass |-> Zero, display_vol |-> Zero,
          display_density |-> Zero, display_conc |-> Zero]

\* the four displayed values; none is bound when the solver raised
Displayed(calc) ==
    IF calc.exc # None THEN NoDisplay ELSE Totals(calc.final_materials)

\* the display branch: the solver's message alone, or the metric cards and
\* the table; an exception ends the run wherever it is raised
Rendered(calc, shown) ==
    IF calc.exc # None THEN "exception"
    ELSE IF Raised(shown.display_conc) THEN "exception"
    ELSE IF calc.solve_error_msg # None THEN "error"
    ELSE "metrics"

\* one run of the script: the sidebar, the main calculation, the totals and
\* the display branch
Rerun ==
    /\ pc = "rerun"
    /\ pc' = "idle"
    /\ is_valid_solve' = IsValidSolve
    /\ \E calc \in {MainCalculation} :
          /\ branch' = calc.branch
          /\ final_materials' = calc.final_materials
          /\ solve_error_msg' = calc.solve_error_msg
          /\ \E shown \in {Displayed(calc)} :
                /\ display' = shown
                /\ rendered' = Rendered(calc, shown)
    /\ UNCHANGED <<widgets, call>>

\* the values the modelled user enters
MassUnitChoices == {"mg", "g"}

VolUnitChoices == {"uL", "mL"}

MinCount == 2

MaxCount == 3

TargetVolChoices == {Zero, Num(100, 1)}

TargetConcChoices ==
    {Zero, Num(40, 1), Num(1, 10000000), Num(2, 10000000)}

ConcChoices(i) ==
    IF i = 1 THEN {Zero, Num(1, 10000000)}
    ELSE IF i = 2 THEN {Zero, Num(1, 10000000), Num(100, 1), Num(150, 1)}
    ELSE {Zero}

\* a concentration the size of the solver's tolerance
ToleranceSized(c) == Lt(Zero, c) /\ Lt(c, Num(1, 1000000))

\* a bound of the model: the concentrations entered in one session, the
\* target included, are all of everyday size or all of the tolerance's size
\* (or 0), so that every sum of the run has at most nine digits
OneScale(target_conc, materials) ==
    LET concs == {target_conc}
                 \cup {materials[i].conc : i \in DOMAIN materials}
    IN  \A a \in concs, b \in concs :
            (~Eq(a, Zero) /\ ~Eq(b, Zero))
                => (ToleranceSized(a) <=> ToleranceSized(b))

DensityChoices(i) == IF i = 2 THEN {Num(1, 1), Num(2, 1)} ELSE {Num(1, 1)}

MassChoices(i) == IF i <= 2 THEN {Zero, Num(100, 1)} ELSE {Num(100, 1)}

MolarMassChoices(i) ==
    IF i = 1 THEN {Zero, DefaultMolarMass} ELSE {DefaultMolarMass}

\* a changed widget starts a new run, whose names are not bound yet
Changed ==
    /\ pc = "idle"
    /\ pc' = "rerun"
    /\ is_valid_solve' = FALSE
    /\ branch' = "none"
    /\ solve_error_msg' = None
    /\ final_materials' = <<>>
    /\ display' = NoDisplay
    /\ rendered' = "nothing"
    /\ UNCHANGED call

SelectConcUnit ==
    \E u \in ConcUnits :
        /\ Changed
        /\ conc_unit' = u
        /\ materials_input' =
              IF Molar(u) THEN materials_input
              ELSE [i \in DOMAIN materials_input |->
                       [materials_input[i] EXCEPT
                           !.molar_mass = DefaultMolarMass]]
        /\ UNCHANGED <<mass_unit, vol_unit, material_count,
                       target_vol_input, target_conc_input>>

SelectMassUnit ==
    \E u \in MassUnitChoices :
        /\ Changed
        /\ mass_unit' = u
        /\ UNCHANGED <<conc_unit, vol_unit, material_count,
                       target_vol_input, target_conc_input, materials_input>>

SelectVolUnit ==
    \E u \in VolUnitChoices :
        /\ Changed
        /\ vol_unit' = u
        /\ UNCHANGED <<conc_unit, mass_unit, material_count,
                       target_vol_input, target_conc_input, materials_input>>

InputMaterialCount ==
    \E n \in MinCount..MaxCount :
        /\ Changed
        /\ material_count' = n
        /\ materials_input' =
              [i \in 1..n |-> IF i <= material_count THEN materials_input[i]
                              ELSE DefaultMaterial(i)]
        /\ UNCHANGED <<conc_unit, mass_unit, vol_unit,
                       target_vol_input, target_conc_input>>

InputTargetVol ==
    \E v \in TargetVolChoices :
        /\ Changed
        /\ target_vol_input' = v
        /\ UNCHANGED <<conc_unit, mass_unit, vol_unit, material_count,
                       target_conc_input, materials_input>>

InputTargetConc ==
    \E c \in TargetConcChoices :
        /\ Changed
        /\ OneScale(c, materials_input)
        /\ target_conc_input' = c
        /\ UNCHANGED <<conc_unit, mass_unit, vol_unit, material_count,
                       target_vol_input, materials_input>>

InputConc ==
    \E i \in 1..material_count : \E c \in ConcChoices(i) :
        /\ Changed
        /\ materials_input' = [materials_input EXCEPT ![i].conc = c]
        /\ OneScale(target_conc_input, materials_input')
        /\ UNCHANGED <<conc_unit, mass_unit, vol_unit, material_count,
                       target_vol_input, target_conc_input>>

InputDensity ==
    \E i \in 1..material_count : \E d \in DensityChoices(i) :
        /\ Changed
        /\ materials_input' = [materials_input EXCEPT ![i].density = d]
        /\ UNCHANGED <<conc_unit, mass_unit, vol_unit, material_count,
                       target_vol_input, target_conc_input>>

\* the mass input is disabled while the page shows the solve mode
InputMass ==
    \E i \in 1..material_count : \E m \in MassChoices(i) :
        /\ Changed
        /\ ~is_valid_solve
        /\ materials_input' = [materials_input EXCEPT ![i].mass = m]
        /\ UNCHANGED <<conc_unit, mass_unit, vol_unit, material_count,
                       target_vol_input, target_conc_input>>

\* the molar mass input exists only under a molar concentration unit
InputMolarMass ==
    \E i \in 1..material_count : \E mm \in MolarMassChoices(i) :
        /\ Changed
        /\ Molar(conc_unit)
        /\ materials_input' = [materials_input EXCEPT ![i].molar_mass = mm]
        /\ UNCHANGED <<conc_unit, mass_unit, vol_unit, material_count,
                       target_vol_input, target_conc_input>>

DefaultWidgets ==
    /\ conc_unit = "mg/L"
    /\ mass_unit = "mg"
    /\ vol_unit = "uL"
    /\ material_count = 2
    /\ target_vol_input = Zero
    /\ target_conc_input = Zero
    /\ materials_input = [i \in 1..2 |-> DefaultMaterial(i)]

NothingRun ==
    /\ pc = "rerun"
    /\ is_valid_solve = FALSE
    /\ branch = "none"
    /\ solve_error_msg = None
    /\ final_materials = <<>>
    /\ display = NoDisplay
    /\ rendered = "nothing"

\* the session opens: the widgets hold their defaults, the first run is due
Init == DefaultWidgets /\ NothingRun /\ call = NoCall

Next ==
    \/ Rerun
    \/ SelectConcUnit \/ SelectMassUnit \/ SelectVolUnit
    \/ InputMaterialCount \/ InputTargetVol \/ InputTargetConc
    \/ InputConc \/ InputDensity \/ InputMass \/ InputMolarMass

Spec == Init /\ [][Next]_vars

\* direct calls: each initial state holds one call's arguments
InitFn ==
    /\ DefaultWidgets /\ NothingRun
    /\ \/ \E a \in SolveArgs :
            call = [fn |-> "solve_two_component_mixture", args |-> a,
                    done |-> FALSE, ret |-> <<>>]
       \/ \E a \in CalculateArgs :
            call = [fn |-> "calculate_solute_mass", args |-> a,
                    done |-> FALSE, ret |-> <<>>]
       \/ \E a \in ConvertArgs :
            call = [fn |-> "convert_solute_to_target_unit", args |-> a,
                    done |-> FALSE, ret |-> <<>>]

NextFn == CallSolve \/ CallCalculateSoluteMass \/ CallConvert

SpecFn == InitFn /\ [][NextFn]_vars

---------------------------------------------------------------------------
(* Claims about the engine's functions, under SpecFn.                      *)

Solved == call.fn = "solve_two_component_mixture" /\ call.done

ReturnsMasses(r) == r.exc = None /\ r.err = None

ReturnsError(r, msg) == r.exc = None /\ r.err = msg

Tolerance == Num(1, 10000000)

\* the error the four conditions of C2 call for, the first that holds
\* deciding; None when none holds
ClaimedError(a) ==
    LET lo == Sub(Min(a.c1, a.c2), Tolerance)
        hi == Add(Max(a.c1, a.c2), Tolerance)
    IN  IF Eq(a.c1, Zero) /\ Eq(a.c2, Zero) THEN MsgEnterConc
        ELSE IF Lt(a.target_conc, lo) \/ Lt(hi, a.target_conc)
        THEN MsgOutOfRange
        ELSE IF Lt(Abs(Sub(a.c1, a.c2)), Tolerance) THEN MsgSameConc
        ELSE IF a.unit = "% (w/w)"
                /\ Lt(Abs(Sub(a.c1, a.target_conc)), Tolerance)
        THEN MsgSameAsComp1
        ELSE None

\* C2: the solver returns an error, and no masses, exactly when one of the
\* four conditions holds, the first one deciding the message; on every
\* other input it returns a pair of masses and no error.
C2_SolverErrorsExactly ==
    Solved =>
        LET e == ClaimedError(call.args)
        IN  IF e # None THEN ReturnsError(call.ret, e)
            ELSE ReturnsMasses(call.ret)

InClosedInterval(a) ==
    /\ Le(Min(a.c1, a.c2), a.target_conc)
    /\ Le(a.target_conc, Max(a.c1, a.c2))

\* the volumes of the two returned masses
Volume1 == Div(call.ret.masses[1], call.args.d1)

Volume2 == Div(call.ret.masses[2], call.args.d2)

\* C5: for every unit but weight percent a successful solve returns
\* (v1*d1, v2*d2) with v1 = V*(t - c2)/(c1 - c2) and v2 = V - v1, so that
\* v1 + v2 = V and v1*c1 + v2*c2 = t*(v1 + v2); c1=0, d1=1.0, c2=100,
\* d2=1.2, V=100, t=40 gives the masses 60 and 48.
C5_VolumeBasedSolution ==
    (Solved /\ call.args.unit # "% (w/w)" /\ ReturnsMasses(call.ret)) =>
        LET a == call.args
        IN  /\ Eq(Volume1, Div(Mul(a.target_vol_ml,
                                   Sub(a.target_conc, a.c2)),
                               Sub(a.c1, a.c2)))
            /\ Eq(Volume2, Sub(a.target_vol_ml, Volume1))
            /\ Eq(Add(Volume1, Volume2), a.target_vol_ml)
            /\ Eq(Add(Mul(Volume1, a.c1), Mul(Volume2, a.c2)),
                  Mul(a.target_conc, Add(Volume1, Volume2)))
            /\ (/\ Eq(a.c1, Zero) /\ Eq(a.d1, Num(1, 1))
                /\ Eq(a.c2, Num(100, 1)) /\ Eq(a.d2, Num(12, 10))
                /\ Eq(a.target_vol_ml, Num(100, 1))
                /\ Eq(a.target_conc, Num(40, 1))
                => /\ Eq(call.ret.masses[1], Num(60, 1))
                   /\ Eq(call.ret.masses[2], Num(48, 1)))

\* the example of C5 has been solved
C5_Witness ==
    /\ Solved /\ call.args.unit = "g/L" /\ ReturnsMasses(call.ret)
    /\ Eq(call.args.c1, Zero) /\ Eq(call.args.d1, Num(1, 1))
    /\ Eq(call.args.c2, Num(100, 1)) /\ Eq(call.args.d2, Num(12, 10))
    /\ Eq(call.args.target_vol_ml, Num(100, 1))
    /\ Eq(call.args.target_conc, Num(40, 1))
    /\ Eq(call.ret.masses[2], Num(48, 1))

SolvedByMass ==
    Solved /\ call.args.unit = "% (w/w)" /\ ReturnsMasses(call.ret)

\* C6 as stated: in the weight-percent branch the target volume acts as the
\* target total mass, mass1 + mass2 = targetVolumeML.
C6_MassesSumToTarget ==
    SolvedByMass =>
        Eq(Add(call.ret.masses[1], call.ret.masses[2]),
           call.args.target_vol_ml)

\* C6 as amended: in the weight-percent branch the target volume is the
\* total volume of the two masses, mass1/d1 + mass2/d2 = targetVolumeML.
C6_VolumesSumToTarget ==
    SolvedByMass => Eq(Add(Volume1, Volume2), call.args.target_vol_ml)

\* a weight-percent solve of two liquids of different density
C6_Witness ==
    /\ SolvedByMass
    /\ ~Eq(call.args.d1, call.args.d2)
    /\ Lt(Zero, call.ret.masses[1]) /\ Lt(Zero, call.ret.masses[2])

\* C7: calculate_solute_mass and convert_solute_to_target_unit never fail:
\* for every density > 0 and every other input (a molar mass of 0, totals
\* of 0, any unit string) they return a number, never dividing by zero.
C7_EngineNeverRaises ==
    (call.done /\ call.fn \in {"calculate_solute_mass",
                               "convert_solute_to_target_unit"})
        => ~Raised(call.ret)

NegativeMassReached ==
    /\ Solved /\ ReturnsMasses(call.ret)
    /\ (Lt(call.ret.masses[1], Zero) \/ Lt(call.ret.masses[2], Zero))

---------------------------------------------------------------------------
(* Claims about the page, under Spec.  A run is over when pc = "idle".     *)

RunOver == pc = "idle"

TargetVolumePositive == Lt(Zero, target_vol_input)

TargetConcPositive == Lt(Zero, target_conc_input)

\* C1: every run takes exactly one of the three modes: solve iff target
\* volume > 0 and target concentration > 0 and two components; scale iff
\* target volume > 0 and not solve; direct iff target volume = 0.
C1_ExactlyOneMode ==
    RunOver =>
        /\ branch \in {"solve", "scale", "direct"}
        /\ branch = "solve" <=>
              (TargetVolumePositive /\ TargetConcPositive
                  /\ material_count = 2)
        /\ branch = "scale" <=>
              (TargetVolumePositive
                  /\ ~(TargetConcPositive /\ material_count = 2))
        /\ branch = "direct" <=> Eq(target_vol_input, Zero)

\* a run with a target concentration and three components scales
C1_Witness ==
    /\ RunOver /\ branch = "scale"
    /\ TargetConcPositive /\ material_count = 3

\* C3: the result is success with data or failure with a message: when the
\* solver returns an error no record is computed and only the message is
\* rendered; when there is no error there is exactly one computed record
\* per component, in every mode.
C3_SuccessXorFailure ==
    RunOver =>
        /\ solve_error_msg # None =>
              (branch = "solve" /\ final_materials = <<>>
                  /\ rendered = "error")
        /\ solve_error_msg = None => Len(final_materials) = material_count

\* C4: in solve mode, whenever the solver succeeds, the displayed
\* concentration of the mixture of the two solved masses equals the target
\* concentration, for every unit, density and molar mass.
C4_SolveHitsTarget ==
    (RunOver /\ branch = "solve" /\ rendered = "metrics") =>
        Eq(display.display_conc, target_conc_input)

\* the declared masses in grams and the sum of the declared volumes
DeclaredMassG(i) ==
    Mul(materials_input[i].mass, MASS_UNIT_TO_G[mass_unit])

DeclaredVolume ==
    Sum([i \in 1..material_count |->
            Div(DeclaredMassG(i), materials_input[i].density)])

UniformFactor ==
    IF Lt(Zero, DeclaredVolume)
    THEN Div(Mul(target_vol_input, VOL_UNIT_TO_ML[vol_unit]), DeclaredVolume)
    ELSE Zero

\* C8: in scale mode every computed mass is the declared mass in grams
\* times one factor, target volume / sum of declared volumes; with a sum
\* > 0 the computed volumes sum to the target volume; with a sum of 0 the
\* factor is 0, every mass, volume and solute mass is 0, and nothing fails.
C8_ScaleMode ==
    (RunOver /\ branch = "scale") =>
        /\ Len(final_materials) = material_count
        /\ \A i \in 1..material_count :
              Eq(final_materials[i].mass_g,
                 Mul(DeclaredMassG(i), UniformFactor))
        /\ Lt(Zero, DeclaredVolume) =>
              Eq(Sum([i \in 1..material_count |-> final_materials[i].vol_mL]),
                 Mul(target_vol_input, VOL_UNIT_TO_ML[vol_unit]))
        /\ Eq(DeclaredVolume, Zero) =>
              /\ \A i \in 1..material_count :
                    /\ Eq(final_materials[i].mass_g, Zero)
                    /\ Eq(final_materials[i].vol_mL, Zero)
                    /\ Eq(final_materials[i].solute_g, Zero)
              /\ solve_error_msg = None
              /\ rendered = "metrics"

\* a recipe of three components scaled by a factor other than 1
C8_Witness ==
    /\ RunOver /\ branch = "scale" /\ material_count = 3
    /\ Lt(Zero, DeclaredVolume)
    /\ ~Eq(UniformFactor, Num(1, 1))
    /\ Lt(Zero, final_materials[3].mass_g)

\* a recipe whose declared masses are all 0 has been scaled
ScaledNothing ==
    /\ RunOver /\ branch = "scale" /\ Eq(DeclaredVolume, Zero)

\* C9: under the weight-percent unit every computed record, in every mode,
\* has a solute mass <= its mass.
C9_SoluteWithinMass ==
    (RunOver /\ conc_unit = "% (w/w)") =>
        \A i \in DOMAIN final_materials :
            Le(final_materials[i].solute_g, final_materials[i].mass_g)
===========================================================================
